---- MODULE Spec2Model ----
(***************************************************************************)
(* Model of the LaTeX editing / compiling Streamlit scripts of the         *)
(* repository:                                                             *)
(*   AI  advanced_interactive_texcompiler.py  (session state, paged view)  *)
(*   IL  interactive_latexpdf_compiler.py     (session state, paged view)  *)
(*   AL  advanced_latex_compiler.py           (read-only source, locals)   *)
(*   AT  advanced_texcompilation.py           (editor, locals)             *)
(*   LC  latex_compiler.py                    (ZIP compiler)               *)
(*                                                                         *)
(* A source text is a sequence of tokens.  A command token stands for the  *)
(* backslash followed by the command name ("section" is \section); the     *)
(* other tokens are single characters: "*", " ", "{", "}", the letters     *)
(* "a" and "b", and NL for the line feed.                                  *)
(***************************************************************************)
EXTENDS Integers, Sequences, FiniteSets, TLC

\* ------------------------------------------------------------------------
\* Bounds of the model
\* ------------------------------------------------------------------------

\* Longest source text given to the outline extractors, in items of TocItems.
MaxItems == 3

\* ------------------------------------------------------------------------
\* Tokens
\* ------------------------------------------------------------------------

NL == "NL"
SP == " "

\* The alternation of the pattern of extract_toc_lines.
HeadingKinds == {"part", "chapter", "section", "subsection", "subsubsection",
                 "paragraph", "subparagraph"}

\* The alternation of the pattern of extract_toc.
SectionKinds == {"section", "subsection", "subsubsection"}

\* \title stands for every command that no pattern names.
Commands == {"part", "chapter", "section", "subsection", "subsubsection",
             "paragraph", "subparagraph", "title"}

NoMatch == [found |-> FALSE]

\* ------------------------------------------------------------------------
\* The regular expressions, as matchers on token sequences
\* ------------------------------------------------------------------------

\* str.splitlines(): the lines of a text, without their line feeds; a final
\* line feed opens no further line and the empty text has no line.
RECURSIVE SplitLinesFrom(_, _)
SplitLinesFrom(s, cur) ==
    IF s = <<>> THEN (IF cur = <<>> THEN <<>> ELSE <<cur>>)
    ELSE IF Head(s) = NL THEN <<cur>> \o SplitLinesFrom(Tail(s), <<>>)
    ELSE SplitLinesFrom(Tail(s), Append(cur, Head(s)))

splitlines(content) == SplitLinesFrom(content, <<>>)

\* \s of the pattern: the white space of the alphabet.
IsSpace(t) == t \in {SP, NL}

\* The first index from `from` on whose token is not white space
\* (Len(s) + 1 when there is none): the greedy \s*.
SkipSpace(s, from) ==
    LET rest == {k \in from..Len(s) : ~IsSpace(s[k])}
    IN  IF rest = {} THEN Len(s) + 1
        ELSE CHOOSE k \in rest : \A m \in rest : k <= m

\* (mutant) the last "}" from `from` on: a greedy title
LastClose(s, from) ==
    LET closes == {k \in from..Len(s) : s[k] = "}"}
    IN  IF closes = {} THEN 0
        ELSE CHOOSE k \in closes : \A m \in closes : k >= m

\* The index of the first "}" from `from` on, 0 when there is none: where
\* [^}]* followed by the closing brace ends.
FirstClose(s, from) ==
    LET closes == {k \in from..Len(s) : s[k] = "}"}
    IN  IF closes = {} THEN 0
        ELSE CHOOSE k \in closes : \A m \in closes : k <= m

\* A match of  \\(kinds)\*?\s*{([^}]*)}  (lax) or of  \\(kinds)\{([^}]*)\}
\* (not lax) starting at index i of s: group 1, group 2 and the index after
\* the match, or NoMatch.
MatchAt(s, i, kinds, lax) ==
    IF i > Len(s) \/ s[i] \notin kinds THEN NoMatch
    ELSE LET afterStar == IF lax /\ i + 1 <= Len(s) /\ s[i + 1] = "*"
                          THEN i + 2 ELSE i + 1
             open      == IF lax THEN SkipSpace(s, afterStar) ELSE afterStar
             close     == IF open <= Len(s) THEN FirstClose(s, open + 1) ELSE 0
         IN  IF open <= Len(s) /\ s[open] = "{" /\ close # 0
             THEN [found |-> TRUE, level |-> s[i],
                   title |-> SubSeq(s, open + 1, close - 1), end |-> close + 1]
             ELSE NoMatch

\* (mutant) the pattern without its  \*?\s*
HeadingPatternNoStar(s, i) == MatchAt(s, i, HeadingKinds, FALSE)

\* pattern of extract_toc_lines
HeadingPattern(s, i) == MatchAt(s, i, HeadingKinds, TRUE)

\* (mutant) a pattern that takes every command for a heading
SectionPatternAnyCommand(s, i) == MatchAt(s, i, Commands, FALSE)

\* pattern / section_pattern of extract_toc
SectionPattern(s, i) == MatchAt(s, i, SectionKinds, FALSE)

\* (mutant) the last match in the line
SearchLast(line) ==
    LET starts == {i \in 1..Len(line) : HeadingPattern(line, i).found}
    IN  IF starts = {} THEN NoMatch
        ELSE HeadingPattern(line, CHOOSE i \in starts : \A m \in starts : i >= m)

\* pattern.search(line): the leftmost match in the line.
Search(line) ==
    LET starts == {i \in 1..Len(line) : HeadingPattern(line, i).found}
    IN  IF starts = {} THEN NoMatch
        ELSE HeadingPattern(line, CHOOSE i \in starts : \A m \in starts : i <= m)

\* ------------------------------------------------------------------------
\* The outline extractors
\* ------------------------------------------------------------------------

\* The loop of extract_toc_lines over enumerate(lines), from index i on.
RECURSIVE TocOfLines(_, _)
TocOfLines(lines, i) ==
    IF lines = <<>> THEN <<>>
    ELSE LET match == Search(Head(lines))
         IN  (IF match.found
              THEN <<[title |-> match.title, line |-> i, level |-> match.level]>>
              ELSE <<>>)
             \o TocOfLines(Tail(lines), i + 1)

\* (mutant) lines counted from 1
extract_toc_lines_from_one(content) == TocOfLines(splitlines(content), 1)

extract_toc_lines(content) == TocOfLines(splitlines(content), 0)

Indent(level) ==
    IF level = "section" THEN 0 ELSE IF level = "subsection" THEN 20 ELSE 40

\* pattern.finditer(content): the matches in the whole text, left to right,
\* each search resuming where the previous match ended.
RECURSIVE FindIter(_, _)
FindIter(s, from) ==
    IF from > Len(s) THEN <<>>
    ELSE LET match == SectionPattern(s, from)
         IN  IF match.found
             THEN <<[title |-> match.title, indent |-> Indent(match.level)]>>
                  \o FindIter(s, match.end)
             ELSE FindIter(s, from + 1)

extract_toc(content) == FindIter(content, 1)

\* ------------------------------------------------------------------------
\* The scripts: files, session state and one script run
\* ------------------------------------------------------------------------

VARIABLES
    variant,        \* which script runs: "AI", "IL", "AL", "AT" or "LC"
    dir_exists,     \* os.path.exists(manuscript_dir)
    tex_file,       \* the text of the .tex file on disk, NoFile when absent
    pdf_file,       \* the <base>.pdf beside it, NoPdf when absent
    adjacent_zip,   \* LC: a ZIP file beside the script exists
    tmp_zip,        \* LC: the temporary copy of this run's upload exists
    pdf_data,       \* st.session_state.pdf_data (AI, IL) or the local pdf_data
    pdf_filename,   \* st.session_state.pdf_filename or the local pdf_filename
    doc,            \* st.session_state.doc
    total_pages,    \* st.session_state.total_pages
    current_page,   \* st.session_state.current_page
    tex_content,    \* st.session_state.tex_content; the extractor's argument
    toc_items,      \* toc_items
    pc,             \* where the script run is
    edited_tex,     \* edited_tex, the editor's text in this run
    uploaded_zip,   \* LC: uploaded_zip is not None
    zip_path,       \* LC: zip_path
    result,         \* the CompletedProcess of subprocess.run
    raised,         \* the exception raised in the compile block of this run
    shown,          \* the st.error / st.success reports of this run
    presented,      \* the artifact offered for preview and download in this run
    tool_calls,     \* calls of subprocess.run in this run
    tex_before,     \* the .tex file when the compile block of this run began
    tree,           \* tree mode: the parent of each node of toc_items, 0 for a root
    other_pc,       \* a second session of the same script: where its compile is
    other_edited_tex, \* the editor's text of the second session
    overwritten,    \* the second session wrote the source file between this
                    \* run's write and its call of the tool
    nav,            \* the page navigation input of this run
    selected_line,  \* st.session_state.selected_line
    goto_line,      \* the argument of editor.gotoLine in this run, 0 without a call
    chosen          \* the line of the outline entry selected and not yet
                    \* passed by the cursor block, NoChoice without one

fsVars   == <<dir_exists, tex_file, pdf_file, adjacent_zip, tmp_zip>>
sessVars == <<pdf_data, pdf_filename, doc, total_pages, current_page, tex_content>>
runVars  == <<edited_tex, uploaded_zip, zip_path, result, raised, shown,
              presented, tool_calls, tex_before>>
otherVars == <<other_pc, other_edited_tex>>
jumpVars == <<selected_line, goto_line, chosen>>
auxVars  == <<tree, otherVars, overwritten, nav, jumpVars>>
vars     == <<variant, fsVars, sessVars, toc_items, pc, runVars, auxVars>>

\* The scripts that keep their results in st.session_state.
SessionVariants == {"AI", "IL"}
\* The scripts that work on the manuscript directory beside them.
ManuscriptVariants == {"AI", "IL", "AL", "AT"}
\* The scripts with an editor.
EditorVariants == {"AI", "IL", "AT"}
Variants == ManuscriptVariants \cup {"LC"}

\* Two manuscripts: one with a heading on its first line, one with its only
\* heading on the second line.
DocA == <<"section", "{", "a", "}", NL, "a">>
DocB == <<"a", NL, "subsection", "{", "b", "}">>
WorkDocs == {DocA, DocB}

NoFile == <<"(no file)">>
NoPdf  == [src |-> NoFile, pages |-> 0]
NoDoc  == [art |-> NoPdf, closed |-> FALSE]

\* The PDF the build tool makes of a source text.
PageCount(text) == IF text = DocA THEN 1 ELSE 2
Artifact(text) == [src |-> text, pages |-> PageCount(text)]
Artifacts == {Artifact(t) : t \in WorkDocs}

\* What the build tool prints, and what str(e) of an exception can be.
Stdouts == {<<>>, <<"o">>}
Stderrs == {<<>>, <<"e">>}
ExcMsgs == {<<"m1">>, <<"m2">>}

NoResult == [returned |-> FALSE, rc |-> 0, stdout |-> <<>>, stderr |-> <<>>,
             exists |-> FALSE]
NoExc    == [at |-> "none", msg |-> <<>>]

Report(kind, text) == [kind |-> kind, text |-> text]
Reported(kind) == \E m \in shown : m.kind = kind

NoView == [download |-> NoPdf, view |-> NoPdf]

\* (mutant) the list of the previous call is still there
TocOfPreviousCall == toc_items

\* toc = []: the list a call of an extractor appends to is a new, empty one.
TocAtCall == <<>>

\* The extractor each script calls.
ExtractorOf(v, content) ==
    IF v \in SessionVariants THEN extract_toc_lines(content)
    ELSE extract_toc(content)

\* The report of the handler  except subprocess.TimeoutExpired.
TimeoutHandler == Report("Timeout", <<>>)

\* The report of the handler  except Exception as e:  st.error(f"...{str(e)}").
ExceptionHandler(msg) == Report("ToolError", msg)

\* (mutant) the exit status alone decides
CompileSucceededOnExitStatus(rc, exists) == rc = 0

\* The test of the compile blocks:
\*   result.returncode == 0 and os.path.exists(pdf_path)
CompileSucceeded(rc, exists) == rc = 0 /\ exists

\* (mutant) the two streams in the other order
FailureLogErrFirst(res) == res.stderr \o res.stdout

\* The text of the log shown by the failure branch: result.stdout + result.stderr
FailureLog(res) == res.stdout \o res.stderr

\* (mutant) every script writes the source file before compiling
WritesBeforeCompileAlways(v) == TRUE

\* Whether the script's compile block begins by writing edited_tex to the file.
WritesBeforeCompile(v) == v \in SessionVariants

\* (mutant) every script creates the missing directory
CreatesMissingDirAlways(v) == TRUE

\* Whether the script creates a missing manuscript directory (os.makedirs).
CreatesMissingDir(v) == v \in SessionVariants

\* (mutant) pdf_data is never reset
KeepsPdfDataAlways(v) == TRUE

\* Whether pdf_data and pdf_filename outlive a script run: they are keys of
\* st.session_state in AI and IL, and locals set to None by every run of the
\* other scripts.
KeepsPdfData(v) == v \in SessionVariants

\* No outline entry is waiting for the cursor block.
NoChoice == -1

\* IL: the label of an outline entry in the section dropdown,
\* f"{item['title']} (line {item['line']+1})", as its two parts.
SectionOption(item) == [title |-> item.title, number |-> item.line + 1]

\* IL: int(selected_section.split("(line ")[1].rstrip(")")) - 1
LineOfOption(option) == option.number - 1

\* st.session_state.selected_line after the selection of an outline entry:
\* AI's button stores item['line'], IL reads the line back from the label.
SelectedLineOf(v, item) ==
    IF v = "IL" THEN LineOfOption(SectionOption(item)) ELSE item.line

\* AI calls st.experimental_rerun() in the handler of an outline button: the
\* run ends there, before the editor.  IL's dropdown handler goes on.
RerunsAfterSelection(v) == v = "AI"

\* The guard of the cursor block: if st.session_state.selected_line > 0.
JumpGuard(line) == line > 0

\* The guards of the preview blocks.
PreviewGuard(v, data, d) ==
    IF v \in SessionVariants THEN data # NoPdf /\ d # NoDoc ELSE data # NoPdf

Init ==
    /\ variant \in Variants
    /\ dir_exists \in (IF variant = "LC" THEN {FALSE} ELSE BOOLEAN)
    /\ tex_file \in (IF dir_exists THEN WorkDocs \cup {NoFile} ELSE {NoFile})
    /\ pdf_file \in (IF tex_file # NoFile THEN Artifacts \cup {NoPdf} ELSE {NoPdf})
    /\ adjacent_zip \in (IF variant = "LC" THEN BOOLEAN ELSE {FALSE})
    /\ tmp_zip = FALSE
    /\ pdf_data = NoPdf
    /\ pdf_filename = "None"
    /\ doc = NoDoc
    /\ total_pages = 1
    /\ current_page = 1
    /\ tex_content = NoFile
    /\ toc_items = <<>>
    /\ pc = "ready"
    /\ edited_tex = NoFile
    /\ uploaded_zip = FALSE
    /\ zip_path = "None"
    /\ result = NoResult
    /\ raised = NoExc
    /\ shown = {}
    /\ presented = NoView
    /\ tool_calls = 0
    /\ tex_before = NoFile
    /\ tree = <<>>
    /\ other_pc = "idle"
    /\ other_edited_tex = NoFile
    /\ overwritten = FALSE
    /\ nav = "none"
    /\ selected_line = 0
    /\ goto_line = 0
    /\ chosen = NoChoice

\* What every script run starts from: nothing reported, nothing presented,
\* no tool result.
FreshRun ==
    /\ result' = NoResult
    /\ raised' = NoExc
    /\ presented' = NoView
    /\ tool_calls' = 0
    /\ uploaded_zip' = FALSE
    /\ zip_path' = "None"
    /\ overwritten' = FALSE
    /\ nav' = "none"

\* A run of one of the manuscript scripts up to its compile block: the
\* directory and file checks, the outline, the editor, the two buttons.
\* click is the button pressed before this run, auto the checkbox, ed the
\* text in the editor, sel the outline entry selected (AI: the outline button
\* pressed, IL: the entry shown in the section dropdown), 0 for none.
ScriptTop(click, auto, ed, sel) ==
    /\ UNCHANGED <<tree, otherVars>>
    /\ goto_line' = 0
    /\ sel # 0 => /\ variant \in SessionVariants
                  /\ dir_exists /\ tex_file # NoFile
                  /\ RerunsAfterSelection(variant) => click = "none"
    /\ pc = "ready"
    /\ variant \in ManuscriptVariants
    /\ variant = "AL" => click # "save"
    /\ FreshRun
    /\ UNCHANGED <<variant, pdf_file, adjacent_zip, tmp_zip, doc, total_pages,
                   current_page>>
    /\ IF ~dir_exists \/ tex_file = NoFile
       THEN \* the validation failures: st.stop(), or AL's skipped else branch
            /\ dir_exists' = (dir_exists \/ CreatesMissingDir(variant))
            /\ shown' = {Report("Validation",
                                IF dir_exists THEN <<"no .tex file">>
                                ELSE <<"no manuscript directory">>)}
            /\ pc' = IF variant = "AL" THEN "preview" ELSE "ready"
            /\ pdf_data' = IF KeepsPdfData(variant) THEN pdf_data ELSE NoPdf
            /\ pdf_filename' = IF KeepsPdfData(variant) THEN pdf_filename
                               ELSE "None"
            /\ tex_before' = NoFile
            /\ UNCHANGED <<tex_file, tex_content, toc_items, edited_tex>>
       ELSE LET session_text == IF tex_content = NoFile THEN tex_file
                                ELSE tex_content
                triggered    == click = "compile" \/ (click = "save" /\ auto)
                editor_text  == IF variant \in EditorVariants THEN ed ELSE NoFile
                saved        == IF click = "save" THEN editor_text ELSE tex_file
                rerun        == sel # 0 /\ RerunsAfterSelection(variant)
            IN  /\ toc_items' = TocAtCall \o ExtractorOf(variant, IF variant = "IL"
                                                                  THEN session_text
                                                                  ELSE tex_file)
                /\ edited_tex' = IF rerun THEN edited_tex ELSE editor_text
                /\ tex_content' = IF rerun THEN session_text
                                  ELSE IF variant \in SessionVariants
                                  THEN editor_text
                                  ELSE tex_content
                /\ tex_file' = saved
                /\ pdf_data' = IF KeepsPdfData(variant) THEN pdf_data ELSE NoPdf
                /\ pdf_filename' = IF KeepsPdfData(variant) THEN pdf_filename
                                   ELSE "None"
                /\ shown' = {}
                /\ tex_before' = IF triggered THEN saved ELSE NoFile
                /\ pc' = IF rerun THEN "ready"
                         ELSE IF ~triggered THEN "preview"
                         ELSE IF WritesBeforeCompile(variant) THEN "write"
                         ELSE "tool"
                /\ UNCHANGED dir_exists
    /\ sel # 0 => sel \in DOMAIN toc_items'
    /\ selected_line' = IF sel # 0 THEN SelectedLineOf(variant, toc_items'[sel])
                        ELSE selected_line
    /\ chosen' = IF sel # 0 THEN toc_items'[sel].line ELSE chosen

\* Where a run goes on after its compile block.
AfterCompile == IF variant = "LC" THEN "cleanup" ELSE "preview"

\* AI, IL: "Save edited content before compiling", the first statement of
\* the try block; an exception of open() or write() goes to the handler.
CompileWrite ==
    /\ UNCHANGED auxVars
    /\ pc = "write"
    /\ \/ /\ tex_file' = edited_tex
          /\ pc' = "tool"
          /\ UNCHANGED <<raised, shown>>
       \/ \E m \in ExcMsgs :
             /\ raised' = [at |-> "write", msg |-> m]
             /\ shown' = shown \cup {ExceptionHandler(m)}
             /\ pc' = AfterCompile
             /\ UNCHANGED tex_file
    /\ UNCHANGED <<variant, dir_exists, pdf_file, adjacent_zip, tmp_zip,
                   sessVars, toc_items, edited_tex, uploaded_zip, zip_path,
                   result, presented, tool_calls, tex_before>>

\* What the build tool can leave at pdf_path: what was there, nothing, or the
\* PDF of the source file.
PdfAfterTool == {pdf_file, NoPdf, Artifact(tex_file)}

\* (mutant) the timeout-and-retry-once pattern
AfterTimeoutRetryOnce == IF tool_calls = 0 THEN "tool" ELSE AfterCompile

\* Where a run goes on after subprocess.run raised TimeoutExpired.
AfterTimeout == AfterCompile

\* subprocess.run(["latexmk", ...], timeout=120): the tool returns, or the
\* timeout expires, or the call raises another exception.
ToolRun ==
    /\ UNCHANGED auxVars
    /\ pc = "tool"
    /\ tool_calls' = tool_calls + 1
    /\ \/ \E rc \in {0, 1}, out \in Stdouts, err \in Stderrs, pdf \in PdfAfterTool :
             /\ result' = [returned |-> TRUE, rc |-> rc, stdout |-> out,
                           stderr |-> err, exists |-> FALSE]
             /\ pdf_file' = pdf
             /\ pc' = "classify"
             /\ UNCHANGED <<raised, shown>>
       \/ \E pdf \in PdfAfterTool :
             /\ raised' = [at |-> "timeout", msg |-> <<>>]
             /\ shown' = shown \cup {TimeoutHandler}
             /\ pdf_file' = pdf
             /\ pc' = AfterTimeout
             /\ UNCHANGED result
       \/ \E m \in ExcMsgs :
             /\ raised' = [at |-> "invoke", msg |-> m]
             /\ shown' = shown \cup {ExceptionHandler(m)}
             /\ pc' = AfterCompile
             /\ UNCHANGED <<result, pdf_file>>
    /\ UNCHANGED <<variant, dir_exists, tex_file, adjacent_zip, tmp_zip,
                   sessVars, toc_items, edited_tex, uploaded_zip, zip_path,
                   presented, tex_before>>

\* IL closes the document it holds before it opens the new one.
ClosesOldDoc(v) == v = "IL"

\* The if / else on the tool's result, inside the try block.  In the success
\* branch the PDF is read, then success is reported, then (AI, IL) the PDF is
\* copied to a temporary file and opened with fitz; each of these can raise.
Classify ==
    /\ UNCHANGED auxVars
    /\ pc = "classify"
    /\ LET exists == pdf_file # NoPdf
       IN  /\ result' = [result EXCEPT !.exists = exists]
           /\ IF CompileSucceeded(result.rc, exists)
              THEN \/ \E m \in ExcMsgs :     \* open(pdf_path, "rb") or read() raises
                         /\ raised' = [at |-> "read", msg |-> m]
                         /\ shown' = shown \cup {ExceptionHandler(m)}
                         /\ UNCHANGED <<pdf_data, pdf_filename, doc, total_pages,
                                        current_page, presented>>
                   \/ /\ pdf_data' = pdf_file
                      /\ pdf_filename' = "compiled"
                      /\ IF variant \in SessionVariants
                         THEN \/ /\ doc' = [art |-> pdf_file, closed |-> FALSE]
                                 /\ total_pages' = pdf_file.pages
                                 /\ current_page' = 1
                                 /\ shown' = shown \cup {Report("Success", <<>>)}
                                 /\ UNCHANGED <<raised, presented>>
                              \/ \E m \in ExcMsgs :   \* the temporary file
                                    /\ raised' = [at |-> "tmpfile", msg |-> m]
                                    /\ shown' = shown \cup {Report("Success", <<>>),
                                                            ExceptionHandler(m)}
                                    /\ UNCHANGED <<doc, total_pages, current_page,
                                                   presented>>
                              \/ \E m \in ExcMsgs :   \* fitz.open
                                    /\ raised' = [at |-> "open", msg |-> m]
                                    /\ shown' = shown \cup {Report("Success", <<>>),
                                                            ExceptionHandler(m)}
                                    /\ doc' = IF ClosesOldDoc(variant) /\ doc # NoDoc
                                              THEN [doc EXCEPT !.closed = TRUE]
                                              ELSE doc
                                    /\ UNCHANGED <<total_pages, current_page,
                                                   presented>>
                         ELSE /\ shown' = shown \cup {Report("Success", <<>>)}
                              /\ presented' = IF variant = "LC"
                                              THEN [download |-> pdf_file,
                                                    view |-> pdf_file]
                                              ELSE presented
                              /\ UNCHANGED <<raised, doc, total_pages, current_page>>
              ELSE /\ shown' = shown \cup {Report("Failure", FailureLog(result))}
                   /\ UNCHANGED <<raised, pdf_data, pdf_filename, doc, total_pages,
                                  current_page, presented>>
    /\ pc' = AfterCompile
    /\ UNCHANGED <<variant, fsVars, tex_content, toc_items, edited_tex,
                   uploaded_zip, zip_path, tool_calls, tex_before>>

\* The page navigation inputs of the preview block: none, the buttons
\* "Previous Page", "Next Page" and "Go" (with the number in "Jump to page"),
\* and a change of AI's "Page number" input.
Navs == {"none", "prev", "next", "go", "page_num"}

\* (mutant) "Next Page" without the test against total_pages
PageAfterUnchecked(n, j) ==
    CASE n = "prev" -> IF current_page > 1 THEN current_page - 1 ELSE current_page
      [] n = "next" -> current_page + 1
      [] n \in {"go", "page_num"} -> j
      [] OTHER -> current_page

\* st.session_state.current_page after the navigation controls.
PageAfter(n, j) ==
    CASE n = "prev" -> IF current_page > 1 THEN current_page - 1 ELSE current_page
      [] n = "next" -> IF current_page < total_pages THEN current_page + 1
                       ELSE current_page
      [] n \in {"go", "page_num"} -> j
      [] OTHER -> current_page

\* AI calls st.experimental_rerun() after every change of current_page: the
\* run ends there and the page is rendered by the run that follows.
RerunsAfterPageChange(v) == v = "AI"

\* The preview block of a manuscript script; the run ends after it.  n is
\* the navigation input of the run and j the number in its number input,
\* which the widget keeps within 1..total_pages.  A run has one clicked
\* button, so a run that compiles has no navigation input.  After the
\* preview, AI and IL run the cursor block, unless AI's rerun ended the run.
Preview(n, j) ==
    /\ pc = "preview"
    /\ n # "none" =>
          /\ variant \in SessionVariants
          /\ PreviewGuard(variant, pdf_data, doc)
          /\ tex_before = NoFile
    /\ n = "page_num" => variant = "AI"
    /\ j \in 1..total_pages
    /\ n \notin {"go", "page_num"} => j = 1
    /\ nav' = n
    /\ current_page' = PageAfter(n, j)
    /\ presented' = IF PreviewGuard(variant, pdf_data, doc)
                       /\ ~(RerunsAfterPageChange(variant)
                            /\ current_page' # current_page)
                    THEN [download |-> pdf_data,
                          view |-> IF variant \in SessionVariants
                                   THEN (IF doc.closed THEN NoPdf ELSE doc.art)
                                   ELSE pdf_data]
                    ELSE NoView
    /\ IF variant \in SessionVariants
          /\ ~(RerunsAfterPageChange(variant) /\ current_page' # current_page)
       THEN /\ goto_line' = IF JumpGuard(selected_line) THEN selected_line + 1
                            ELSE goto_line
            /\ selected_line' = IF JumpGuard(selected_line) THEN 0
                                ELSE selected_line
            /\ chosen' = NoChoice
       ELSE UNCHANGED jumpVars
    /\ pc' = "ready"
    /\ UNCHANGED <<variant, fsVars, pdf_data, pdf_filename, doc, total_pages,
                   tex_content, toc_items, edited_tex, uploaded_zip,
                   zip_path, result, raised, shown, tool_calls, tex_before,
                   tree, otherVars, overwritten>>

PreviewStep == \E n \in Navs, j \in 1..total_pages : Preview(n, j)

\* A run of the ZIP compiler up to its compile button: the two tabs that set
\* zip_path.  uploaded: a file is in the uploader; named: what the text input
\* names ("none", "found": an existing .zip beside the script, "bad").
ZipTop(uploaded, named, click) ==
    /\ UNCHANGED auxVars
    /\ pc = "ready"
    /\ variant = "LC"
    /\ named = "found" => adjacent_zip
    /\ result' = NoResult
    /\ raised' = NoExc
    /\ presented' = NoView
    /\ tool_calls' = 0
    /\ uploaded_zip' = uploaded
    /\ tmp_zip' = uploaded
    /\ zip_path' = IF named = "found" THEN "adjacent"
                   ELSE IF uploaded THEN "tmp" ELSE "None"
    /\ shown' = IF named = "bad" THEN {Report("Validation", <<"no such ZIP file">>)}
                ELSE {}
    /\ pdf_data' = NoPdf
    /\ pdf_filename' = "None"
    /\ tex_before' = NoFile
    /\ pc' = IF zip_path' # "None" /\ click THEN "extract" ELSE "ready"
    /\ UNCHANGED <<variant, dir_exists, tex_file, pdf_file, adjacent_zip, doc,
                   total_pages, current_page, tex_content, toc_items, edited_tex>>

\* The outer try block of the ZIP compiler up to the inner one: the archive
\* is extracted into a temporary directory and searched for manuscript/*.tex.
ZipExtract ==
    /\ UNCHANGED auxVars
    /\ pc = "extract"
    /\ \/ \E text \in {<<"invalid ZIP file">>, <<"permission denied">>} \cup ExcMsgs :
             \* BadZipFile, PermissionError, any other exception
             /\ raised' = [at |-> "extract", msg |-> text]
             /\ shown' = shown \cup {Report("ArchiveError", text)}
             /\ pc' = "cleanup"
             /\ UNCHANGED <<dir_exists, tex_file, pdf_file, tex_before>>
       \/ /\ shown' = shown \cup {Report("Validation", <<"no .tex file">>)}
          /\ pc' = "cleanup"
          /\ UNCHANGED <<dir_exists, tex_file, pdf_file, tex_before, raised>>
       \/ \E text \in WorkDocs, pdf \in Artifacts \cup {NoPdf} :
             /\ dir_exists' = TRUE
             /\ tex_file' = text
             /\ pdf_file' = pdf
             /\ tex_before' = text
             /\ pc' = "tool"
             /\ UNCHANGED <<shown, raised>>
    /\ UNCHANGED <<variant, adjacent_zip, tmp_zip, sessVars, toc_items, edited_tex,
                   uploaded_zip, zip_path, result, presented, tool_calls>>

\* The end of the ZIP compiler's run: the temporary directory goes, and the
\* finally block unlinks zip_path when a file was uploaded.
ZipCleanup ==
    /\ UNCHANGED auxVars
    /\ pc = "cleanup"
    /\ dir_exists' = FALSE
    /\ tex_file' = NoFile
    /\ pdf_file' = NoPdf
    /\ LET unlink == uploaded_zip /\ zip_path # "None"
       IN  /\ tmp_zip' = IF unlink /\ zip_path = "tmp" THEN FALSE ELSE tmp_zip
           /\ adjacent_zip' = IF unlink /\ zip_path = "adjacent" THEN FALSE
                              ELSE adjacent_zip
    /\ pc' = "ready"
    /\ UNCHANGED <<variant, sessVars, toc_items, edited_tex, uploaded_zip, zip_path,
                   result, raised, shown, presented, tool_calls, tex_before>>

Clicks == {"none", "save", "compile"}

\* The positions in the outline an entry can be selected at, 0 for none: the
\* outline of a manuscript has at most as many entries as the text has lines.
Selections == 0..2

Next ==
    \/ \E click \in Clicks, auto \in BOOLEAN, ed \in WorkDocs, sel \in Selections :
          ScriptTop(click, auto, ed, sel)
    \/ CompileWrite
    \/ ToolRun
    \/ Classify
    \/ PreviewStep
    \/ \E uploaded \in BOOLEAN, named \in {"none", "found", "bad"}, click \in BOOLEAN :
          ZipTop(uploaded, named, click)
    \/ ZipExtract
    \/ ZipCleanup

Spec == Init /\ [][Next]_vars

\* ------------------------------------------------------------------------
\* Two sessions of one session-state script on the same manuscript directory
\* ------------------------------------------------------------------------

\* The second session runs the same script in another thread of the server.
\* Of its compile only what it does to the shared files is kept: the write of
\* its editor's text to tex_file_path and the tool's write of pdf_path.  It
\* compiles once.  The outline is left alone while the two compile.

\* (mutant) the second session waits while this one is in its compile block
OtherWaitsForCompile == pc \notin {"tool", "classify"}

\* Whether a session may enter the statements of its compile block now: the
\* block takes no lock on the directory and asks for none.
OtherMayProceed == TRUE

\* The second session's compile is triggered with ed in its editor.
OtherTrigger(ed) ==
    /\ other_pc = "idle"
    /\ dir_exists /\ tex_file # NoFile
    /\ other_pc' = "write"
    /\ other_edited_tex' = ed
    /\ UNCHANGED <<variant, fsVars, sessVars, toc_items, pc, runVars, tree,
                   overwritten, nav, jumpVars>>

\* with open(tex_file_path, "w") as f: f.write(edited_tex), second session.
OtherWrite ==
    /\ other_pc = "write"
    /\ OtherMayProceed
    /\ tex_file' = other_edited_tex
    /\ overwritten' = (overwritten \/ (pc = "tool" /\ tex_file # other_edited_tex))
    /\ other_pc' = "tool"
    /\ UNCHANGED <<variant, dir_exists, pdf_file, adjacent_zip, tmp_zip, sessVars,
                   toc_items, pc, runVars, tree, other_edited_tex, nav,
                   jumpVars>>

\* subprocess.run(["latexmk", ...]) of the second session.
OtherTool ==
    /\ other_pc = "tool"
    /\ OtherMayProceed
    /\ pdf_file' \in PdfAfterTool
    /\ other_pc' = "done"
    /\ UNCHANGED <<variant, dir_exists, tex_file, adjacent_zip, tmp_zip, sessVars,
                   toc_items, pc, runVars, tree, other_edited_tex, overwritten,
                   nav, jumpVars>>

InitRace ==
    /\ Init
    /\ variant \in SessionVariants
    /\ dir_exists /\ tex_file # NoFile
    /\ pdf_file = NoPdf

NextRace ==
    \/ \E click \in Clicks, auto \in BOOLEAN, ed \in WorkDocs :
          ScriptTop(click, auto, ed, 0)
    \/ CompileWrite
    \/ ToolRun
    \/ Classify
    \/ PreviewStep
    \/ \E ed \in WorkDocs : OtherTrigger(ed)
    \/ OtherWrite
    \/ OtherTool

SpecRace == InitRace /\ [][NextRace]_vars

\* A script run is one synchronous execution: once it has begun, each of its
\* statements is executed, and subprocess.run(..., timeout=...) returns or
\* raises.  Only the start of a run waits for the user.
FairSpec ==
    /\ Spec
    /\ WF_vars(CompileWrite) /\ WF_vars(ToolRun) /\ WF_vars(Classify)
    /\ WF_vars(PreviewStep) /\ WF_vars(ZipExtract) /\ WF_vars(ZipCleanup)

\* ------------------------------------------------------------------------
\* The outline extractors on their own, over all short source texts
\* ------------------------------------------------------------------------

\* The pieces the source texts are made of, k being the command of the text's
\* headings: a heading, a starred one, one with a blank before its brace, a
\* \subsection{b} line, a heading whose brace is not closed, a heading with a
\* braced group in its title, a letter, a line feed, a heading whose title
\* goes over a line feed.
TocItems(k) ==
    { <<k, "{", "a", "}">>,
      <<k, "*", "{", "a", "}">>,
      <<k, SP, "{", "a", "}">>,
      <<"subsection", "{", "b", "}", NL>>,
      <<k, "{", "a">>,
      <<"section", "{", "a", "{", "b", "}", "a", "}">>,
      <<"a">>,
      <<NL>>,
      <<k, "{", "a", NL, "}">> }

RECURSIVE Flatten(_)
Flatten(items) ==
    IF items = <<>> THEN <<>> ELSE Head(items) \o Flatten(Tail(items))

TocTexts ==
    UNION { { Flatten(items) :
                items \in UNION { [1..n -> TocItems(k)] : n \in 0..MaxItems } } :
            k \in Commands }

\* The extractor is called in a session with or without a compiled PDF.
InitToc ==
    /\ variant \in ManuscriptVariants
    /\ tex_content \in TocTexts
    /\ toc_items = <<>>
    /\ pc = "toc"
    /\ dir_exists = TRUE
    /\ tex_file = NoFile
    /\ pdf_file = NoPdf
    /\ adjacent_zip = FALSE
    /\ tmp_zip = FALSE
    /\ pdf_data \in (IF variant \in SessionVariants THEN {NoPdf, Artifact(DocA)}
                     ELSE {NoPdf})
    /\ pdf_filename = (IF pdf_data = NoPdf THEN "None" ELSE "compiled")
    /\ doc = (IF pdf_data = NoPdf THEN NoDoc
              ELSE [art |-> pdf_data, closed |-> FALSE])
    /\ total_pages = 1
    /\ current_page = 1
    /\ edited_tex = NoFile
    /\ uploaded_zip = FALSE
    /\ zip_path = "None"
    /\ result = NoResult
    /\ raised = NoExc
    /\ shown = {}
    /\ presented = NoView
    /\ tool_calls = 0
    /\ tex_before = NoFile
    /\ tree = <<>>
    /\ other_pc = "idle"
    /\ other_edited_tex = NoFile
    /\ overwritten = FALSE
    /\ nav = "none"
    /\ selected_line = 0
    /\ goto_line = 0
    /\ chosen = NoChoice

\* toc_items = extract_toc_lines(tex_content)  /  extract_toc(tex_content)
RunExtractor ==
    /\ UNCHANGED auxVars
    /\ pc = "toc"
    /\ toc_items' = TocAtCall \o ExtractorOf(variant, tex_content)
    /\ pc' = "extracted"
    /\ UNCHANGED <<variant, fsVars, sessVars, runVars>>

\* The next script run calls the extractor on the same text.
RunExtractorAgain ==
    /\ UNCHANGED auxVars
    /\ pc = "extracted"
    /\ toc_items' = TocAtCall \o ExtractorOf(variant, tex_content)
    /\ pc' = "again"
    /\ UNCHANGED <<variant, fsVars, sessVars, runVars>>

\* Tree mode.  No script of the repository builds a tree; these definitions
\* follow the description of the tree mode: the fixed order of the levels,
\* and "a node at level L attaches as a child of the most recently seen node
\* at the nearest shallower level; a node whose expected parent level has not
\* yet appeared is attached at the top level".
Depth(level) ==
    CASE level = "part" -> 1
      [] level = "chapter" -> 2
      [] level = "section" -> 3
      [] level = "subsection" -> 4
      [] level = "subsubsection" -> 5
      [] level = "paragraph" -> 6
      [] OTHER -> 7

\* The depth of a node of either extractor.
NodeDepth(node) ==
    IF "level" \in DOMAIN node THEN Depth(node.level)
    ELSE IF node.indent = 0 THEN 3 ELSE IF node.indent = 20 THEN 4 ELSE 5

\* The most recently seen node before node i that is shallower than it, 0
\* when there is none.
NearestShallower(nodes, i) ==
    LET above == {j \in 1..(i - 1) : NodeDepth(nodes[j]) < NodeDepth(nodes[i])}
    IN  IF above = {} THEN 0 ELSE CHOOSE j \in above : \A k \in above : j >= k

\* (mutant) every node but the first hangs under the node before it
ParentIsPrevious(nodes, i, policy) == i - 1

\* The parent of node i.  The description leaves open whether a node whose
\* nearest shallower node is more than one level up hangs under it
\* ("nearest") or goes to the top ("expected"); policy chooses.
ParentOf(nodes, i, policy) ==
    LET j == NearestShallower(nodes, i)
    IN  IF j = 0 THEN 0
        ELSE IF policy = "expected"
                /\ NodeDepth(nodes[j]) # NodeDepth(nodes[i]) - 1 THEN 0
        ELSE j

TreePolicies == {"nearest", "expected"}

\* The tree of an outline, as the sequence of the parents of its nodes.
BuildTree ==
    /\ pc = "extracted"
    /\ \E policy \in TreePolicies :
          tree' = [i \in DOMAIN toc_items |-> ParentOf(toc_items, i, policy)]
    /\ pc' = "tree"
    /\ UNCHANGED <<variant, fsVars, sessVars, toc_items, runVars, otherVars,
                   overwritten, nav, jumpVars>>

NextToc == RunExtractor \/ RunExtractorAgain \/ BuildTree

SpecToc == InitToc /\ [][NextToc]_vars

\* ------------------------------------------------------------------------
\* The compile workflow: claims C1 to C7 (under Spec)
\* ------------------------------------------------------------------------

\* The tool has returned and the if / else on its result has been taken.
Classified == result.returned /\ pc # "classify"

\* The run is over.
RunOver == pc = "ready"

ExitZeroAndArtifact == result.rc = 0 /\ result.exists

\* C1 as stated: a compile whose tool returned is reported Success exactly
\* when the tool exited 0 and the artifact exists, and is reported Failure in
\* the two mixed cases.  (Violated: the artifact exists, the exit status is 0
\* and reading the artifact raises; the report is ToolError.)
C1_AsStated ==
    Classified =>
        /\ Reported("Success") <=> ExitZeroAndArtifact
        /\ ~ExitZeroAndArtifact => Reported("Failure")

\* C1 as amended: a compile whose tool returned is reported Failure exactly
\* when the exit status is not 0 or the artifact is missing, and is reported
\* Success exactly when the exit status is 0, the artifact exists and reading
\* it raised no exception; when reading it raised, the report is ToolError.
C1_SuccessIffExitZeroAndArtifactRead ==
    Classified =>
        /\ Reported("Failure") <=> ~ExitZeroAndArtifact
        /\ Reported("Success") <=> (ExitZeroAndArtifact /\ raised.at # "read")
        /\ (ExitZeroAndArtifact /\ raised.at = "read") => Reported("ToolError")
        /\ ~(Reported("Success") /\ Reported("Failure"))

\* A run ended in Failure although a (stale) artifact existed.
C1_Witness ==
    /\ RunOver /\ Classified
    /\ result.rc = 1 /\ result.exists
    /\ Reported("Failure") /\ ~Reported("Success")

\* C2: when the tool returned with a non-zero exit status or without the
\* artifact, the run reports Failure, once, and the text of the report is the
\* tool's standard output followed by its standard error.
C2_FailureLogIsStdoutThenStderr ==
    (Classified /\ ~ExitZeroAndArtifact) =>
        /\ Reported("Failure")
        /\ \A m \in shown :
              m.kind = "Failure" =>
                  /\ Len(m.text) = Len(result.stdout) + Len(result.stderr)
                  /\ SubSeq(m.text, 1, Len(result.stdout)) = result.stdout
                  /\ SubSeq(m.text, Len(result.stdout) + 1, Len(m.text))
                         = result.stderr
        /\ ~Reported("Success") /\ ~Reported("Timeout") /\ ~Reported("ToolError")

\* A failed run whose tool wrote to both streams.
C2_Witness ==
    /\ RunOver /\ Classified /\ result.rc = 1
    /\ result.stdout = <<"o">> /\ result.stderr = <<"e">>
    /\ Report("Failure", <<"o", "e">>) \in shown

NotSuccessful == Reported("Failure") \/ Reported("Timeout") \/ Reported("ToolError")

C4_AtMostOneToolCallPerRun ==
    /\ tool_calls <= 1
    /\ raised.at = "timeout" =>
          /\ Reported("Timeout")
          /\ tool_calls = 1
          /\ pc \in {"preview", "cleanup", "ready"}
    /\ Reported("Timeout") => raised.at = "timeout"

\* A run that timed out and ended.
C4_Witness == RunOver /\ Reported("Timeout") /\ tool_calls = 1

\* The places of the compile block where invoking the tool or reading its
\* result raises an exception other than the timeout: subprocess.run, reading
\* the PDF file, opening the PDF with fitz.
ResultFaults == {"invoke", "read", "open"}

\* C5: an exception other than a timeout raised while the tool is invoked
\* or its result is read is reported as ToolError with the exception's message, and the run reports
\* neither Timeout nor Failure nor Success.  (Violated in AI and IL: success
\* is reported before the PDF is opened for the paged preview.)
C5_AsStated ==
    raised.at \in ResultFaults =>
        /\ Report("ToolError", raised.msg) \in shown
        /\ ~Reported("Timeout") /\ ~Reported("Failure") /\ ~Reported("Success")

MissingDir == variant \in ManuscriptVariants /\ ~dir_exists

\* C6 as stated: while the manuscript directory is missing no step of a run
\* reaches the compile block, calls the tool, or changes a file, a directory
\* or the session state, and the run reports a validation failure.
\* (Violated in AI and IL: os.makedirs creates the directory.)
C6_AsStated ==
    [][MissingDir =>
          /\ pc' \notin {"write", "tool", "classify"}
          /\ tool_calls' = 0
          /\ pc = "ready" => Reported("Validation")'
          /\ UNCHANGED <<fsVars, sessVars>>]_vars

\* C6 as amended: while the manuscript directory is missing no step of a run
\* reaches the compile block or calls the tool, the run reports a validation
\* failure, and no file and no session state is created or changed, except
\* that AI and IL create the (empty) manuscript directory; AL and AT create
\* nothing.
C6_MissingDirNoCompile ==
    [][MissingDir =>
          /\ pc' \notin {"write", "tool", "classify"}
          /\ tool_calls' = 0
          /\ pc = "ready" => Reported("Validation")'
          /\ dir_exists' = (variant \in {"AI", "IL"})
          /\ UNCHANGED <<tex_file, pdf_file, adjacent_zip, tmp_zip, sessVars>>]_vars

\* AI or IL has stopped on the missing directory, which it created.
C6_Witness ==
    /\ RunOver /\ variant \in {"AI", "IL"}
    /\ shown = {Report("Validation", <<"no manuscript directory">>)}
    /\ dir_exists /\ tex_file = NoFile /\ tool_calls = 0

\* A compile block has begun in this run and its working copy of the source
\* is still on disk (the ZIP compiler's is removed with its temporary
\* directory when the run ends).
Compiling == tex_before # NoFile /\ ~(variant = "LC" /\ pc = "ready")

\* C7 as stated: from the start of the compile block to its outcome the
\* source file is what it was.  (Violated in AI and IL: the compile block
\* begins by writing the editor's text to the file.)
C7_AsStated == Compiling => tex_file = tex_before

\* C7 as amended: no compile block deletes the source file; AL, AT and the
\* ZIP compiler leave it as it was; AI and IL first overwrite it with the
\* editor's text (edited_tex) and leave it unchanged from there, so that it
\* holds the editor's text whenever the tool has been called.
C7_SourceRewrittenOnlyByEditorScripts ==
    Compiling =>
        /\ tex_file # NoFile
        /\ variant \notin {"AI", "IL"} => tex_file = tex_before
        /\ variant \in {"AI", "IL"} =>
              /\ tex_file \in {tex_before, edited_tex}
              /\ tool_calls >= 1 => tex_file = edited_tex

\* AI or IL has called the tool on a source file that the compile block
\* rewrote.
C7_Witness ==
    /\ variant \in {"AI", "IL"} /\ tool_calls = 1
    /\ tex_file = edited_tex /\ tex_file # tex_before /\ tex_before # NoFile

\* ------------------------------------------------------------------------
\* The outline extractors: claims C8 to C10 (under SpecToc)
\* ------------------------------------------------------------------------

\* What the claims call a recognized heading command, stated on the text and
\* not on the extractors: one of the seven commands, then at most one "*",
\* then blanks, then a brace that is closed on the same line.
SevenKinds == {"part", "chapter", "section", "subsection", "subsubsection",
               "paragraph", "subparagraph"}

IsHeadingAt(text, p) ==
    /\ text[p] \in SevenKinds
    /\ \E b \in (p + 1)..Len(text), c \in (p + 2)..Len(text) :
          /\ b < c
          /\ text[b] = "{" /\ text[c] = "}"
          /\ \A q \in (p + 1)..(b - 1) :
                text[q] = SP \/ (q = p + 1 /\ text[q] = "*")
          /\ \A q \in p..c : text[q] # NL

HeadingStarts(text) == {p \in 1..Len(text) : IsHeadingAt(text, p)}

\* The zero-based line of position p: the line feeds before it.
LineNo(text, p) == Cardinality({q \in 1..(p - 1) : text[q] = NL})

HeadingLines(text) == {LineNo(text, p) : p \in HeadingStarts(text)}

StartsOnLine(text, l) == {p \in HeadingStarts(text) : LineNo(text, p) = l}

Least(S) == CHOOSE p \in S : \A q \in S : p <= q

\* The i-th smallest element of S.
Nth(S, i) == CHOOSE p \in S : Cardinality({q \in S : q < p}) = i - 1

\* The first brace after position p, and the first closing brace after it.
BraceOf(text, p) == Least({b \in (p + 1)..Len(text) : text[b] = "{"})
CloseOf(text, p) == Least({c \in (BraceOf(text, p) + 1)..Len(text) : text[c] = "}"})

\* The title of the heading at p: what stands between its brace and the
\* first closing brace.
TitleOf(text, p) == SubSeq(text, BraceOf(text, p) + 1, CloseOf(text, p) - 1)

\* What extract_toc of AL and AT takes for a heading: \section, \subsection
\* or \subsubsection with the brace right behind it, closed anywhere later.
IsSectionAt(text, p) ==
    /\ text[p] \in {"section", "subsection", "subsubsection"}
    /\ p + 1 <= Len(text) /\ text[p + 1] = "{"
    /\ \E c \in (p + 2)..Len(text) : text[c] = "}"

SectionStarts(text) == {p \in 1..Len(text) : IsSectionAt(text, p)}

\* The section headings that do not lie inside the title of an earlier one
\* of them.
SectionMatches(text) ==
    CHOOSE M \in SUBSET SectionStarts(text) :
        \A p \in SectionStarts(text) :
            p \in M <=> ~\E q \in M : q < p /\ p < CloseOf(text, q)

\* The level an entry of either extractor stands for.
LevelOf(node) ==
    IF "level" \in DOMAIN node THEN node.level
    ELSE IF node.indent = 0 THEN "section"
    ELSE IF node.indent = 20 THEN "subsection" ELSE "subsubsection"

HasLines == \A i \in DOMAIN toc_items : "line" \in DOMAIN toc_items[i]

Extracted == pc = "extracted"

\* The outline is ordered by source line and has exactly one node for each
\* line that contains a heading.
OneNodePerHeadingLine ==
    /\ Len(toc_items) = Cardinality(HeadingLines(tex_content))
    /\ HasLines
    /\ \A i, j \in DOMAIN toc_items : i < j => toc_items[i].line <= toc_items[j].line
    /\ {toc_items[i].line : i \in DOMAIN toc_items} = HeadingLines(tex_content)

\* C8 as stated: the outline of every extractor is ordered non-decreasingly
\* by source line and has exactly one node per line that contains a
\* recognized heading command.  (Violated by extract_toc of AL and AT.)
C8_AsStated == Extracted => OneNodePerHeadingLine

\* C8 as amended: the outline of extract_toc_lines (AI, IL) is ordered
\* non-decreasingly by source line and has exactly one node per line that
\* contains a recognized heading command; extract_toc (AL, AT) returns
\* (title, indent) pairs without a source line, one for each \section,
\* \subsection or \subsubsection heading of the whole text that does not lie
\* inside the title of an earlier one, so that one line can give several.
C8_OneNodePerHeadingLineInLineExtractor ==
    Extracted =>
        /\ variant \in {"AI", "IL"} => OneNodePerHeadingLine
        /\ variant \in {"AL", "AT"} =>
              /\ \A i \in DOMAIN toc_items :
                    DOMAIN toc_items[i] = {"title", "indent"}
              /\ Len(toc_items) = Cardinality(SectionMatches(tex_content))

\* Three lines with one heading each give three nodes, of lines 0, 1 and 2.
C8_Witness ==
    /\ Extracted /\ variant = "AI"
    /\ Len(toc_items) = 3
    /\ toc_items[1].line = 0 /\ toc_items[2].line = 1 /\ toc_items[3].line = 2

\* C9 as stated: a line whose only heading command is one of the seven
\* kinds, starred or not, yields a node of that level, and every node is of
\* the level of a heading command of the text.  (Violated by extract_toc of
\* AL and AT, which knows three kinds and no star.)
C9_AsStated ==
    Extracted =>
        /\ \A l \in HeadingLines(tex_content) :
              Cardinality(StartsOnLine(tex_content, l)) = 1 =>
                  \E i \in DOMAIN toc_items :
                      LevelOf(toc_items[i])
                          = tex_content[Least(StartsOnLine(tex_content, l))]
        /\ \A i \in DOMAIN toc_items :
              \E p \in HeadingStarts(tex_content) :
                  LevelOf(toc_items[i]) = tex_content[p]

\* C9 as amended: extract_toc_lines (AI, IL) recognizes exactly the seven
\* kinds, each with or without the star and with blanks before the brace:
\* every node stands on a line with such a heading and has the level of the
\* leftmost one, and a line whose only heading is of one of these kinds
\* yields a node of that level; extract_toc (AL, AT) recognizes only
\* \section, \subsection and \subsubsection directly followed by the brace:
\* its i-th entry has the indent of the i-th such heading.
C9_SevenKindsInLineExtractor ==
    Extracted =>
        /\ variant \in {"AI", "IL"} =>
              /\ HasLines
              /\ \A i \in DOMAIN toc_items :
                    /\ toc_items[i].level \in SevenKinds
                    /\ toc_items[i].line \in HeadingLines(tex_content)
                    /\ toc_items[i].level
                          = tex_content[Least(StartsOnLine(tex_content,
                                                           toc_items[i].line))]
              /\ \A l \in HeadingLines(tex_content) :
                    Cardinality(StartsOnLine(tex_content, l)) = 1 =>
                        \E i \in DOMAIN toc_items :
                            /\ toc_items[i].line = l
                            /\ toc_items[i].level
                                  = tex_content[Least(StartsOnLine(tex_content, l))]
        /\ variant \in {"AL", "AT"} =>
              /\ Len(toc_items) <= Cardinality(SectionStarts(tex_content))
              /\ \A i \in DOMAIN toc_items :
                    /\ i <= Cardinality(SectionMatches(tex_content))
                    /\ LevelOf(toc_items[i])
                          = tex_content[Nth(SectionMatches(tex_content), i)]

\* A starred \subparagraph gives a node of level subparagraph.
C9_Witness ==
    /\ Extracted /\ variant = "IL"
    /\ tex_content = <<"subparagraph", "*", "{", "a", "}">>
    /\ toc_items = <<[title |-> <<"a">>, line |-> 0, level |-> "subparagraph"]>>

\* C10 as stated, for the headings that every script recognizes (unstarred
\* \section, \subsection, \subsubsection): when all heading commands of the
\* text stand on one line and there are two or more, the outline has exactly
\* one node, with the level and the title of the leftmost.  (Violated by
\* extract_toc of AL and AT, which gives an entry for each match.)
C10_AsStated ==
    (/\ Extracted
     /\ HeadingStarts(tex_content) = SectionStarts(tex_content)
     /\ Cardinality(HeadingLines(tex_content)) = 1
     /\ Cardinality(HeadingStarts(tex_content)) >= 2) =>
        /\ Len(toc_items) = 1
        /\ LevelOf(toc_items[1]) = tex_content[Least(HeadingStarts(tex_content))]
        /\ toc_items[1].title = TitleOf(tex_content, Least(HeadingStarts(tex_content)))

\* C10 as amended: extract_toc_lines (AI, IL) considers only the first
\* heading command of a line: each line with heading commands yields exactly
\* one node, with the level and the title of the leftmost; extract_toc
\* (AL, AT) searches the whole text and yields an entry for every heading it
\* matches, in text order, each with its own title.
C10_FirstHeadingOfLineInLineExtractor ==
    Extracted =>
        /\ variant \in {"AI", "IL"} =>
              \A l \in HeadingLines(tex_content) :
                  LET first == Least(StartsOnLine(tex_content, l))
                      nodes == {i \in DOMAIN toc_items : toc_items[i].line = l}
                  IN  /\ Cardinality(nodes) = 1
                      /\ \A i \in nodes :
                            /\ toc_items[i].level = tex_content[first]
                            /\ toc_items[i].title = TitleOf(tex_content, first)
        /\ variant \in {"AL", "AT"} =>
              /\ Len(toc_items) = Cardinality(SectionMatches(tex_content))
              /\ \A i \in DOMAIN toc_items :
                    toc_items[i].title
                        = TitleOf(tex_content, Nth(SectionMatches(tex_content), i))

\* \part{a}\subsection{b} on one line gives the single node of \part{a}.
C10_Witness ==
    /\ Extracted /\ variant = "AI"
    /\ tex_content = <<"part", "{", "a", "}", "subsection", "{", "b", "}", NL>>
    /\ toc_items = <<[title |-> <<"a">>, line |-> 0, level |-> "part"]>>

\* C11: the title of every node is the text between the opening brace of a
\* heading and the first "}" after it, verbatim: it contains no "}", it is
\* followed in the source by "}", and of a title with a braced group it keeps
\* the part up to the group's closing brace.
C11_TitleStopsAtFirstClosingBrace ==
    Extracted =>
        \A i \in DOMAIN toc_items :
            LET title == toc_items[i].title
            IN  /\ \A k \in DOMAIN title : title[k] # "}"
                /\ \E p \in HeadingStarts(tex_content) \cup SectionStarts(tex_content) :
                      LET b == BraceOf(tex_content, p)
                      IN  /\ LevelOf(toc_items[i]) = tex_content[p]
                          /\ b + Len(title) + 1 <= Len(tex_content)
                          /\ SubSeq(tex_content, b + 1, b + Len(title)) = title
                          /\ tex_content[b + Len(title) + 1] = "}"

\* \section{a{b}a} gives the title  a{b  in both extractors; here extract_toc.
C11_Witness ==
    /\ Extracted /\ variant = "AT"
    /\ tex_content = <<"section", "{", "a", "{", "b", "}", "a", "}">>
    /\ toc_items = <<[title |-> <<"a", "{", "b">>, indent |-> 0]>>

C13_AsStated ==
    (Extracted /\ HeadingStarts(tex_content) = {}) => toc_items = <<>>

\* C13 as amended: every extractor returns an outline, without an error, for
\* every text, the empty and the malformed included; the outline of
\* extract_toc_lines (AI, IL) is empty exactly when no line of the text has a
\* recognized heading command; the outline of extract_toc (AL, AT) is empty
\* exactly when the text has no \section, \subsection or \subsubsection
\* directly followed by a brace that is closed somewhere later in the text,
\* on the same line or not.
C13_EmptyOutlineWithoutHeadings ==
    Extracted =>
        /\ variant \in {"AI", "IL"} =>
              (toc_items = <<>> <=> HeadingStarts(tex_content) = {})
        /\ variant \in {"AL", "AT"} =>
              (toc_items = <<>> <=> SectionStarts(tex_content) = {})

\* A malformed text, a \section whose brace is never closed, gives the empty
\* outline.
C13_Witness ==
    /\ Extracted /\ variant = "AL"
    /\ tex_content = <<"section", "{", "a", "a">>
    /\ toc_items = <<>>

\* C14: in the tree of an outline every node is kept, every node with a
\* parent is strictly deeper than its parent, which stands before it, and a
\* node that has no shallower node before it is a root.
C14_TreeChildrenAreDeeper ==
    pc = "tree" =>
        /\ DOMAIN tree = DOMAIN toc_items
        /\ \A i \in DOMAIN tree :
              /\ tree[i] \in 0..(i - 1)
              /\ tree[i] # 0 =>
                    NodeDepth(toc_items[tree[i]]) < NodeDepth(toc_items[i])
              /\ (\A j \in 1..(i - 1) :
                     NodeDepth(toc_items[j]) >= NodeDepth(toc_items[i]))
                 => tree[i] = 0

\* \section{a} and on the next line \subsection{b}: a root and its child.
C14_Witness ==
    /\ pc = "tree" /\ variant = "AI"
    /\ tex_content = <<"section", "{", "a", "}", NL, "subsection", "{", "b", "}", NL>>
    /\ Len(toc_items) = 2
    /\ tree = <<0, 1>>

\* ------------------------------------------------------------------------
\* Claims C15 to C20 (under Spec and FairSpec)
\* ------------------------------------------------------------------------

\* The run is inside its compile block.
InCompile == pc \in {"write", "tool", "classify"}

\* The run has entered its compile block.
CompileBegun == tex_before # NoFile

\* The outcomes reported in this run.
Outcomes ==
    {m.kind : m \in shown} \cap {"Success", "Failure", "Timeout", "ToolError"}

\* C15: every compile block that is entered is left again, also when the
\* tool does not return in time, and when it is left exactly one of Success,
\* Failure, Timeout and ToolError has been reported.  (Violated in AI and IL
\* by the fault of C5: success is reported, then fitz.open raises and the
\* handler reports an error.)
C15_AsStated ==
    /\ InCompile ~> ~InCompile
    /\ []((CompileBegun /\ ~InCompile) => Cardinality(Outcomes) = 1)

\* C16: whenever a script with an editor is about to call the build tool,
\* the source file on disk holds the text of the editor, whichever button
\* started the compile.  (Violated in AT: "Compile LaTeX" compiles the file
\* as it is on disk, without the unsaved text of the editor.)
C16_AsStated ==
    (variant \in EditorVariants /\ pc = "tool") => tex_file = edited_tex

\* C17: two sessions on one manuscript directory are not serialized.  While
\* this session is between its write of the source and the end of its compile
\* block, the other session's write and tool call can be taken; and when the
\* other session has written in between, this session's tool is called on
\* the other session's text, not on the text this session saved.
C17_CompilesAreNotSerialized ==
    /\ (pc \in {"tool", "classify"} /\ other_pc = "write") => ENABLED OtherWrite
    /\ (pc \in {"tool", "classify"} /\ other_pc = "tool") => ENABLED OtherTool
    /\ (overwritten /\ pc = "tool") =>
          /\ tex_file = other_edited_tex
          /\ tex_file # edited_tex

\* This session saved its text, the other session overwrote it before the
\* tool ran, and this session reports success with the PDF of the other
\* session's text.
C17_Witness ==
    /\ RunOver /\ overwritten
    /\ Reported("Success") /\ ~NotSuccessful
    /\ tool_calls = 1
    /\ edited_tex # other_edited_tex
    /\ pdf_data = Artifact(other_edited_tex)
    /\ presented.download = Artifact(other_edited_tex)

C19_AsStated ==
    [][/\ adjacent_zip => adjacent_zip'
       /\ pc = "cleanup" => ~tmp_zip']_vars

\* C20: in AI and IL pdf_data, pdf_filename and doc are set together, and
\* when they are set doc is the open document of pdf_data and total_pages is
\* its page count.  (Violated when the temporary copy or fitz.open raises
\* after pdf_data and pdf_filename were assigned: doc and total_pages stay
\* those of the earlier PDF, or None and 1; IL has closed the earlier doc.)
C20_AsStated ==
    variant \in {"AI", "IL"} =>
        /\ (pdf_data # NoPdf) <=> (pdf_filename # "None")
        /\ (pdf_data # NoPdf) <=> (doc # NoDoc)
        /\ pdf_data # NoPdf =>
              /\ doc.art = pdf_data /\ ~doc.closed
              /\ total_pages = pdf_data.pages

\* ------------------------------------------------------------------------
\* Claim C21 (under Spec)
\* ------------------------------------------------------------------------

\* The cursor block of a run of AI or IL has just been passed with an outline
\* entry waiting for it.
CursorBlockPassed == chosen # NoChoice /\ chosen' = NoChoice

\* C21: when an outline entry whose heading is at zero-based line L has been
\* selected, the run that passes the cursor block calls editor.gotoLine(L + 1)
\* and leaves selected_line at 0, for every L, L = 0 included.
C21_AsStated ==
    [][CursorBlockPassed =>
          /\ goto_line' = chosen + 1
          /\ selected_line' = 0]_vars

\* C21 for the headings below the first line: L >= 1.
C21_JumpBelowFirstLine ==
    [][CursorBlockPassed /\ chosen >= 1 =>
          /\ goto_line' = chosen + 1
          /\ selected_line' = 0]_vars

\* An entry on line 1 has been selected and the editor sent to line 2.
C21_JumpReached ==
    /\ pc = "ready" /\ goto_line = 2 /\ selected_line = 0
    /\ toc_items # <<>> /\ toc_items[1].line = 1

\* The entry of a heading on line 0 is selected and waits for the cursor block.
C21_FirstLineSelected ==
    /\ chosen = 0 /\ selected_line = 0 /\ pc = "preview"
    /\ variant \in SessionVariants

====
